---- MODULE Spec2Model ----
(* State-machine model of stl-thumb's `run` (src/lib.rs): one execution of    *)
(* the thumbnail pipeline, statement group by statement group, with the       *)
(* environment (file system, GL driver, window system) choosing whether each  *)
(* fallible call succeeds.                                                    *)
EXTENDS Integers, Sequences, FiniteSets, TLC

VARIABLES
    config,     \* the Config passed to run, plus the state of the input file
    outfile0,   \* the named output file as it was before run started
    pc,         \* position of the single thread inside run
    result,     \* what run produced: still running, Ok, Err (returned), Panic
    mesh,       \* the parsed Mesh (number of triangles), NoMesh before parsing
    held,       \* graphics resources currently owned by locals of run
    transform,  \* whether mesh.scale_and_center() has produced the model matrix
    scene,      \* colour attachment of the scene target the closure draws into
    texture,    \* `texture`: the colour attachment of `framebuffer`
    pixels,     \* `pixels.data`: bytes read back from `texture`
    img,        \* `img`: the byte buffer handed to the encoder
    outfile,    \* the named output file
    stdout,     \* bytes written to the standard output stream
    screen,     \* contents of the window's back buffer (preview)
    closed,     \* the preview loop's `closed` flag
    polled,     \* events delivered to the latest poll_events call
    polls,      \* whether poll_events has been called at all
    trace       \* stages completed so far, in order

vars == <<config, outfile0, pc, result, mesh, held, transform, scene, texture,
          pixels, img, outfile, stdout, screen, closed, polled, polls, trace>>

-----------------------------------------------------------------------------
(* Bounds of the model *)

MaxW == 2
MaxH == 2
MaxTri == 1
MaxEvents == 1

-----------------------------------------------------------------------------
(* Colours.  f32 components are kept in tenths (1.0 is 10). *)

BACKGROUND_COLOR == <<10, 10, 10, 0>>

MaterialAmbient == <<0, 0, 4>>

\* normalised float -> u8 as the GL does it for an RGBA8 attachment
ToU8(f) == IF f <= 0 THEN 0 ELSE IF f >= 10 THEN 255 ELSE (f * 255) \div 10

ToRGBA8(c) == <<ToU8(c[1]), ToU8(c[2]), ToU8(c[3]), ToU8(c[4])>>

\* a fragment of the model as the shader writes it (opaque)
ObjectPixel == <<ToU8(MaterialAmbient[1]), ToU8(MaterialAmbient[2]),
                 ToU8(MaterialAmbient[3]), 255>>

\* contents of freshly allocated GPU memory: unspecified, equal to no colour
Uninit == <<-1, -1, -1, -1>>

NoMesh == [ntri |-> -1]

NoFile == [exists |-> FALSE, data |-> <<>>]

OldFile == [exists |-> TRUE, data |-> << <<"OLD", <<>> >> >>]

-----------------------------------------------------------------------------
(* Pure helpers *)

NPix == config.width * config.height

\* target.clear_color_and_depth(color, 1.0): every pixel of the target
ClearColorAndDepthOpaque(w, h, color) ==
    [i \in 1..(w * h) |-> <<ToU8(color[1]), ToU8(color[2]), ToU8(color[3]), 255>>]

ClearColorAndDepth(w, h, color) == [i \in 1..(w * h) |-> ToRGBA8(color)]

\* target.draw(...): the fragments in `covered` are written, the rest kept
DrawInto(target, covered) ==
    [i \in 1..Len(target) |-> IF i \in covered THEN ObjectPixel ELSE target[i]]

\* 4-neighbours of pixel i (1-based, row-major) in a w x h grid
Neighbours(i, w, h) ==
    LET x == (i - 1) % w
        y == (i - 1) \div w
    IN  {j \in 1..(w * h) :
            LET xj == (j - 1) % w
                yj == (j - 1) \div w
            IN  \/ (xj = x /\ (yj = y + 1 \/ yj = y - 1))
                \/ (yj = y /\ (xj = x + 1 \/ xj = x - 1))}

Mix(a, b) == [k \in 1..4 |-> (a[k] + b[k]) \div 2]

\* the antialiasing pass: pass-through where the neighbourhood has no
\* contrast, a blend with the contrasting neighbour otherwise
FxaaPass(src, w, h) ==
    [i \in 1..Len(src) |->
        LET diff == {j \in Neighbours(i, w, h) : src[j] # src[i]}
        IN  IF diff = {} THEN src[i]
            ELSE Mix(src[i], src[CHOOSE j \in diff : \A k \in diff : j <= k])]

\* texture.read(): the texels as bytes, rows in the GL's bottom-up order
TextureRead(tex) ==
    [k \in 1..(4 * Len(tex)) |-> tex[((k - 1) \div 4) + 1][((k - 1) % 4) + 1]]

\* ImageBuffer::from_raw(w, h, buf): None when the buffer is too short
FromRawOk(w, h, buf) == Len(buf) >= w * h * 4

\* DynamicImage::flipv(): pixel (x, y) of the result is pixel (x, h-1-y)
FlipVIdentity(buf, w, h) == buf

FlipV(buf, w, h) ==
    [k \in 1..Len(buf) |->
        LET c == (k - 1) % 4
            p == (k - 1) \div 4
            x == p % w
            y == p \div w
        IN  buf[(((h - 1 - y) * w + x) * 4) + c + 1]]

\* img.write_to(&mut output, PNG): the byte stream of the encoded image
Encode(buf, w, h) ==
    << <<"SIG", <<>> >>, <<"IHDR", <<w, h>> >>, <<"IDAT", buf>>, <<"IEND", <<>> >> >>

Prefix(s, n) == SubSeq(s, 1, n)

-----------------------------------------------------------------------------
(* Control flow of run *)

GpuResources == {"display", "program", "vertex_buf", "normal_buf", "texture",
                 "depthtexture", "framebuffer", "fxaa", "scene_color",
                 "scene_depth"}

EventKinds == {"CloseRequested", "Destroyed", "Resized", "DeviceEvent"}

EventBatches == UNION {[1..n -> EventKinds] : n \in 0..MaxEvents}

Inputs == {"missing", "malformed", "valid"}

\* statement order with the transform computed before the buffers are sent
NextPcNormalizeFirst(p) ==
    CASE p = "open"      -> "parse"
      [] p = "parse"     -> "normalize"
      [] p = "normalize" -> "context"
      [] p = "context"   -> "program"
      [] p = "program"   -> "upload"
      [] p = "upload"    -> "targets"
      [] p = "targets"   -> "fxaa_new"
      [] p = "fxaa_new"  -> "scene"
      [] p = "scene"     -> "clear"
      [] p = "clear"     -> "draw"
      [] p = "draw"      -> "antialias"
      [] p = "antialias" -> "read"
      [] p = "read"      -> "from_raw"
      [] p = "from_raw"  -> "flipv"
      [] p = "flipv"     -> "output"
      [] p = "output"    -> "write"
      [] p = "write"     -> "ifvisible"
      [] p = "ifvisible" -> "while"
      [] p = "while"     -> "blit"
      [] p = "blit"      -> "poll"
      [] p = "poll"      -> "while"

\* statement order with the GL context created before the file is read
NextPcContextFirst(p) ==
    CASE p = "open"      -> "context"
      [] p = "context"   -> "parse"
      [] p = "parse"     -> "program"
      [] p = "program"   -> "upload"
      [] p = "upload"    -> "normalize"
      [] p = "normalize" -> "targets"
      [] p = "targets"   -> "fxaa_new"
      [] p = "fxaa_new"  -> "scene"
      [] p = "scene"     -> "clear"
      [] p = "clear"     -> "draw"
      [] p = "draw"      -> "antialias"
      [] p = "antialias" -> "read"
      [] p = "read"      -> "from_raw"
      [] p = "from_raw"  -> "flipv"
      [] p = "flipv"     -> "output"
      [] p = "output"    -> "write"
      [] p = "write"     -> "ifvisible"
      [] p = "ifvisible" -> "while"
      [] p = "while"     -> "blit"
      [] p = "blit"      -> "poll"
      [] p = "poll"      -> "while"

\* the statement that follows statement p in run
NextPc(p) ==
    CASE p = "open"      -> "parse"
      [] p = "parse"     -> "context"
      [] p = "context"   -> "program"
      [] p = "program"   -> "upload"
      [] p = "upload"    -> "normalize"
      [] p = "normalize" -> "targets"
      [] p = "targets"   -> "fxaa_new"
      [] p = "fxaa_new"  -> "scene"
      [] p = "scene"     -> "clear"
      [] p = "clear"     -> "draw"
      [] p = "draw"      -> "antialias"
      [] p = "antialias" -> "read"
      [] p = "read"      -> "from_raw"
      [] p = "from_raw"  -> "flipv"
      [] p = "flipv"     -> "output"
      [] p = "output"    -> "write"
      [] p = "write"     -> "ifvisible"
      [] p = "ifvisible" -> "while"
      [] p = "while"     -> "blit"
      [] p = "blit"      -> "poll"
      [] p = "poll"      -> "while"

\* what the locals of run still own once its scope has been left
DropLocalsLeakContext(h) == h \cap {"display"}

DropLocals(h) == {}

\* a panic!/unwrap()/expect() failure: the stack unwinds out of run
Panic(stage) ==
    /\ pc' = "done"
    /\ result' = [kind |-> "Panic", stage |-> stage]
    /\ held' = DropLocals(held)
    /\ trace' = trace

\* an error propagated to the caller by `?`
ReturnErr(stage) ==
    /\ pc' = "done"
    /\ result' = [kind |-> "Err", stage |-> stage]
    /\ held' = DropLocals(held)
    /\ trace' = trace

\* Ok(()) at the end of run
ReturnOk ==
    /\ pc' = "done"
    /\ result' = [kind |-> "Ok", stage |-> "none"]
    /\ held' = DropLocals(held)
    /\ trace' = trace

\* a statement group completed: on to the next one
Advance(stage, acquired) ==
    /\ pc' = NextPc(pc)
    /\ result' = result
    /\ held' = held \cup acquired
    /\ trace' = Append(trace, stage)

-----------------------------------------------------------------------------

Init ==
    /\ config \in [stl : Inputs, ntri : 0..MaxTri, img_filename : {"None", "Some"},
                   width : 1..MaxW, height : 1..MaxH, visible : BOOLEAN]
    /\ outfile0 \in {NoFile, OldFile}
    /\ pc = "open"
    /\ result = [kind |-> "Running", stage |-> "none"]
    /\ mesh = NoMesh
    /\ held = {}
    /\ transform = FALSE
    /\ scene = <<>>
    /\ texture = <<>>
    /\ pixels = <<>>
    /\ img = <<>>
    /\ outfile = outfile0
    /\ stdout = <<>>
    /\ screen = <<>>
    /\ closed = FALSE
    /\ polled = <<>>
    /\ polls = FALSE
    /\ trace = <<>>

\* File::open(&config.stl_filename)?
OpenInput ==
    /\ pc = "open"
    /\ IF config.stl = "missing" THEN ReturnErr("open") ELSE Advance("open", {})
    /\ UNCHANGED <<config, outfile0, mesh, transform, scene, texture, pixels, img,
                   outfile, stdout, screen, closed, polled, polls>>

\* Mesh::from_stl(stl_file)?
ParseMesh ==
    /\ pc = "parse"
    /\ IF config.stl = "malformed"
          THEN ReturnErr("parse") /\ mesh' = mesh
          ELSE Advance("parse", {}) /\ mesh' = [ntri |-> config.ntri]
    /\ UNCHANGED <<config, outfile0, transform, scene, texture, pixels, img,
                   outfile, stdout, screen, closed, polled, polls>>

\* EventsLoop::new(); glium::Display::new(window, context, &events_loop).unwrap()
CreateContext ==
    /\ pc = "context"
    /\ \/ Advance("context", {"display"})
       \/ Panic("context")
    /\ UNCHANGED <<config, outfile0, mesh, transform, scene, texture, pixels, img,
                   outfile, stdout, screen, closed, polled, polls>>

\* glium::Program::from_source(...), panic! on either error arm
CompileProgram ==
    /\ pc = "program"
    /\ \/ Advance("program", {"program"})
       \/ Panic("program")
    /\ UNCHANGED <<config, outfile0, mesh, transform, scene, texture, pixels, img,
                   outfile, stdout, screen, closed, polled, polls>>

\* VertexBuffer::new(&display, &mesh.vertices).unwrap(), then the normals
UploadBuffers ==
    /\ pc = "upload"
    /\ \/ Advance("upload", {"vertex_buf", "normal_buf"})
       \/ Panic("upload")
    /\ UNCHANGED <<config, outfile0, mesh, transform, scene, texture, pixels, img,
                   outfile, stdout, screen, closed, polled, polls>>

\* let transform_matrix = mesh.scale_and_center(); view, perspective, uniforms
Normalize ==
    /\ pc = "normalize"
    /\ Advance("normalize", {})
    /\ transform' = TRUE
    /\ UNCHANGED <<config, outfile0, mesh, scene, texture, pixels, img,
                   outfile, stdout, screen, closed, polled, polls>>

\* Texture2d::empty, DepthTexture2d::empty, SimpleFrameBuffer::with_depth_buffer
CreateTargets ==
    /\ pc = "targets"
    /\ \/ /\ Advance("targets", {"texture", "depthtexture", "framebuffer"})
          /\ texture' = [i \in 1..NPix |-> Uninit]
       \/ /\ Panic("targets")
          /\ texture' = texture
    /\ UNCHANGED <<config, outfile0, mesh, transform, scene, pixels, img,
                   outfile, stdout, screen, closed, polled, polls>>

\* fxaa::FxaaSystem::new(&display)
FxaaNew ==
    /\ pc = "fxaa_new"
    /\ \/ Advance("fxaa_new", {"fxaa"})
       \/ Panic("fxaa_new")
    /\ UNCHANGED <<config, outfile0, mesh, transform, scene, texture, pixels, img,
                   outfile, stdout, screen, closed, polled, polls>>

\* fxaa::draw, before the closure: the scene target the closure renders into
SceneTarget ==
    /\ pc = "scene"
    /\ \/ /\ Advance("scene", {"scene_color", "scene_depth"})
          /\ scene' = [i \in 1..NPix |-> Uninit]
       \/ /\ Panic("scene")
          /\ scene' = scene
    /\ UNCHANGED <<config, outfile0, mesh, transform, texture, pixels, img,
                   outfile, stdout, screen, closed, polled, polls>>

\* target.clear_color_and_depth(BACKGROUND_COLOR, 1.0)
Clear ==
    /\ pc = "clear"
    /\ Advance("clear", {})
    /\ scene' = ClearColorAndDepth(config.width, config.height, BACKGROUND_COLOR)
    /\ UNCHANGED <<config, outfile0, mesh, transform, texture, pixels, img,
                   outfile, stdout, screen, closed, polled, polls>>

\* target.draw((&vertex_buf, &normal_buf), &indices, &program, &uniforms,
\* &params).unwrap(): a mesh without triangles produces no fragment
Draw ==
    /\ pc = "draw"
    /\ \/ /\ \E covered \in SUBSET (1..NPix) :
                /\ mesh.ntri = 0 => covered = {}
                /\ scene' = DrawInto(scene, covered)
          /\ Advance("draw", {})
       \/ /\ Panic("draw")
          /\ scene' = scene
    /\ UNCHANGED <<config, outfile0, mesh, transform, texture, pixels, img,
                   outfile, stdout, screen, closed, polled, polls>>

\* fxaa::draw, after the closure: the full-screen pass from the scene target
\* into `framebuffer`
Antialias ==
    /\ pc = "antialias"
    /\ \/ /\ Advance("antialias", {})
          /\ texture' = FxaaPass(scene, config.width, config.height)
       \/ /\ Panic("antialias")
          /\ texture' = texture
    /\ UNCHANGED <<config, outfile0, mesh, transform, scene, pixels, img,
                   outfile, stdout, screen, closed, polled, polls>>

\* let pixels: RawImage2d<u8> = texture.read()
Read ==
    /\ pc = "read"
    /\ Advance("read", {})
    /\ pixels' = TextureRead(texture)
    /\ UNCHANGED <<config, outfile0, mesh, transform, scene, texture, img,
                   outfile, stdout, screen, closed, polled, polls>>

\* ImageBuffer::from_raw(config.width, config.height, data).unwrap()
FromRaw ==
    /\ pc = "from_raw"
    /\ IF FromRawOk(config.width, config.height, pixels)
          THEN Advance("from_raw", {}) /\ img' = pixels
          ELSE Panic("from_raw") /\ img' = img
    /\ UNCHANGED <<config, outfile0, mesh, transform, scene, texture, pixels,
                   outfile, stdout, screen, closed, polled, polls>>

\* let img = image::DynamicImage::ImageRgba8(img).flipv()
FlipImage ==
    /\ pc = "flipv"
    /\ Advance("flipv", {})
    /\ img' = FlipV(img, config.width, config.height)
    /\ UNCHANGED <<config, outfile0, mesh, transform, scene, texture, pixels,
                   outfile, stdout, screen, closed, polled, polls>>

\* match config.img_filename: File::create(&x).unwrap() truncates or creates
\* the file, None selects io::stdout()
OpenOutput ==
    /\ pc = "output"
    /\ IF config.img_filename = "Some"
          THEN \/ /\ Advance("output", {})
                  /\ outfile' = [exists |-> TRUE, data |-> <<>>]
               \/ /\ Panic("output")
                  /\ outfile' = outfile
          ELSE /\ Advance("output", {})
               /\ outfile' = outfile
    /\ UNCHANGED <<config, outfile0, mesh, transform, scene, texture, pixels, img,
                   stdout, screen, closed, polled, polls>>

\* the output stream after `bytes` have been written to it
Written(bytes) ==
    IF config.img_filename = "Some"
       THEN /\ outfile' = [outfile EXCEPT !.data = @ \o bytes]
            /\ stdout' = stdout
       ELSE /\ stdout' = stdout \o bytes
            /\ outfile' = outfile

\* write_to whose error is dropped instead of passed to expect()
WriteToIgnoringError ==
    /\ pc = "write"
    /\ LET enc == Encode(img, config.width, config.height)
       IN  \E n \in 0..Len(enc) :
                /\ Written(Prefix(enc, n))
                /\ Advance("write", {})
    /\ UNCHANGED <<config, outfile0, mesh, transform, scene, texture, pixels, img,
                   screen, closed, polled, polls>>

\* img.write_to(&mut output, image::ImageFormat::PNG).expect("Error saving image")
WriteTo ==
    /\ pc = "write"
    /\ LET enc == Encode(img, config.width, config.height)
       IN  \/ /\ Written(enc)
              /\ Advance("write", {})
           \/ \E n \in 0..(Len(enc) - 1) :
                /\ Written(Prefix(enc, n))
                /\ Panic("write")
    /\ UNCHANGED <<config, outfile0, mesh, transform, scene, texture, pixels, img,
                   screen, closed, polled, polls>>

\* if config.visible { let mut closed = false; ... } Ok(())
IfVisible ==
    /\ pc = "ifvisible"
    /\ IF config.visible
          THEN /\ pc' = NextPc(pc)
               /\ closed' = FALSE
               /\ UNCHANGED <<result, held, trace>>
          ELSE /\ ReturnOk
               /\ closed' = closed
    /\ UNCHANGED <<config, outfile0, mesh, transform, scene, texture, pixels, img,
                   outfile, stdout, screen, polled, polls>>

\* while !closed { ... } Ok(())
While ==
    /\ pc = "while"
    /\ IF closed
          THEN ReturnOk
          ELSE pc' = NextPc(pc) /\ UNCHANGED <<result, held, trace>>
    /\ UNCHANGED <<config, outfile0, mesh, transform, scene, texture, pixels, img,
                   outfile, stdout, screen, closed, polled, polls>>

\* a blit in the wrong direction: the window's back buffer, whose contents
\* are unspecified, lands in the framebuffer
PreviewBlitReversed ==
    /\ pc = "blit"
    /\ pc' = NextPc(pc)
    /\ texture' = [i \in 1..NPix |-> Uninit]
    /\ UNCHANGED <<config, outfile0, result, held, trace, mesh, transform, scene,
                   pixels, img, outfile, stdout, screen, closed, polled, polls>>

\* thread::sleep; display.draw(); target.blit_from_simple_framebuffer(
\* &framebuffer, ...); target.finish().unwrap()
PreviewBlit ==
    /\ pc = "blit"
    /\ \/ /\ pc' = NextPc(pc)
          /\ screen' = texture
          /\ UNCHANGED <<result, held, trace>>
       \/ /\ Panic("preview")
          /\ screen' = screen
    /\ UNCHANGED <<config, outfile0, mesh, transform, scene, texture, pixels, img,
                   outfile, stdout, closed, polled, polls>>

IsCloseEvent(ev) == ev \in {"CloseRequested", "Destroyed"}

\* the closure given to poll_events, run on every event of the batch
ClosedAfterOnlyCloseRequested(c, evs) ==
    c \/ \E i \in 1..Len(evs) : evs[i] = "CloseRequested"

ClosedAfter(c, evs) == c \/ \E i \in 1..Len(evs) : IsCloseEvent(evs[i])

\* events_loop.poll_events(|ev| ...)
PollEvents ==
    /\ pc = "poll"
    /\ \E evs \in EventBatches :
          /\ polled' = evs
          /\ closed' = ClosedAfter(closed, evs)
    /\ polls' = TRUE
    /\ pc' = NextPc(pc)
    /\ UNCHANGED <<config, outfile0, result, held, trace, mesh, transform, scene,
                   texture, pixels, img, outfile, stdout, screen>>

Next ==
    \/ OpenInput
    \/ ParseMesh
    \/ CreateContext
    \/ CompileProgram
    \/ UploadBuffers
    \/ Normalize
    \/ CreateTargets
    \/ FxaaNew
    \/ SceneTarget
    \/ Clear
    \/ Draw
    \/ Antialias
    \/ Read
    \/ FromRaw
    \/ FlipImage
    \/ OpenOutput
    \/ WriteTo
    \/ IfVisible
    \/ While
    \/ PreviewBlit
    \/ PollEvents

Spec == Init /\ [][Next]_vars

-----------------------------------------------------------------------------
(* Properties *)

InTrace(stage) == \E i \in 1..Len(trace) : trace[i] = stage

Finished == pc = "done"

ReturnedOk == pc = "done" /\ result.kind = "Ok"

EncodedImage == Encode(img, config.width, config.height)

\* what the output destination has received
Output == IF config.img_filename = "Some" THEN outfile.data ELSE stdout

BackgroundPixel == ToRGBA8(BACKGROUND_COLOR)

LoopPcs == {"while", "blit", "poll"}

IsPipelineStage(s) ==
    s \in {"parse", "normalize", "upload", "draw", "antialias", "read"}

PipelineTrace == SelectSeq(trace, IsPipelineStage)

IsPrefixOf(s, t) == Len(s) <= Len(t) /\ s = SubSeq(t, 1, Len(s))

GpuStages == {"context", "program", "upload", "targets", "fxaa_new", "scene",
              "clear", "draw", "antialias", "read"}

\* C1: whenever run has returned Ok(()) the image write has happened, and with
\* an output file name configured that file exists, is non-empty and holds
\* the complete encoded image.
C1_OkImpliesImageWritten ==
    ReturnedOk =>
        /\ InTrace("write")
        /\ Output = EncodedImage
        /\ config.img_filename = "Some" =>
              /\ outfile.exists
              /\ Len(outfile.data) > 0
              /\ outfile.data = EncodedImage

C1_Witness ==
    /\ ReturnedOk
    /\ config.img_filename = "Some"
    /\ outfile0 = OldFile
    /\ outfile.data = EncodedImage

\* C2 (as amended): the pipeline stages complete in the order mesh parse, GPU
\* buffer upload, normalize, draw, antialias, readback; at every moment the
\* stages completed so far are an initial part of that order.
C2_CodeOrder ==
    IsPrefixOf(PipelineTrace,
               <<"parse", "upload", "normalize", "draw", "antialias", "read">>)

C2_Witness ==
    /\ ReturnedOk
    /\ PipelineTrace = <<"parse", "upload", "normalize", "draw", "antialias", "read">>

\* C2 (as stated): the stages complete in the order mesh parse, normalize, GPU
\* buffer upload, draw, antialias, readback.
C2_SpecOrder ==
    IsPrefixOf(PipelineTrace,
               <<"parse", "normalize", "upload", "draw", "antialias", "read">>)

\* C3: no graphics resource is acquired before Mesh::from_stl has succeeded,
\* and a failure to open or parse the input makes run return an error with no
\* graphics stage executed and nothing held.
C3_NoGpuBeforeParse ==
    /\ held # {} => mesh # NoMesh
    /\ \A i \in 1..Len(trace) :
          trace[i] \in GpuStages => \E j \in 1..(i - 1) : trace[j] = "parse"
    /\ (Finished /\ config.stl # "valid") =>
          /\ result.kind = "Err"
          /\ result.stage = (IF config.stl = "missing" THEN "open" ELSE "parse")
          /\ held = {}
          /\ \A i \in 1..Len(trace) : trace[i] \notin GpuStages
    /\ (Finished /\ result.stage \in GpuStages) => mesh # NoMesh

C3_Witness ==
    /\ Finished
    /\ config.stl = "malformed"
    /\ result = [kind |-> "Err", stage |-> "parse"]
    /\ InTrace("open")

\* C4: in every execution in which some stage fails, the output destination
\* has received no image bytes and a pre-existing output file is as it was.
C4_NoPartialOutput ==
    (Finished /\ result.kind # "Ok") => (outfile = outfile0 /\ stdout = <<>>)

\* C5: a failure of any stage ends run with an Err value naming the failing
\* stage, never with a panic, and no later stage has been executed.
C5_FailuresAreErrValues ==
    (Finished /\ result.kind # "Ok") =>
        /\ result.kind = "Err"
        /\ ~InTrace(result.stage)

\* C6: in every terminal state of run, after Ok, after a returned error and
\* after a panic alike, no graphics resource is held any more.
C6_AllReleasedAtEnd ==
    /\ held \subseteq GpuResources
    /\ Finished => held = {}

C6_Witness ==
    /\ Finished
    /\ result = [kind |-> "Panic", stage |-> "write"]
    /\ InTrace("targets")
    /\ InTrace("scene")
    /\ held = {}

\* C7: the preview loop runs only in visible mode and only after the image
\* has been read back and completely written; no step of the loop changes the
\* colour texture, the captured pixels or the written output; the thumbnail
\* written is the capture of the antialiased scene whatever the visibility
\* flag and the window events were.
C7_LoopAfterWrite ==
    pc \in LoopPcs =>
        /\ config.visible
        /\ InTrace("read")
        /\ InTrace("write")
        /\ Output = EncodedImage

C7_LoopKeepsImage ==
    pc \in LoopPcs =>
        /\ texture' = texture
        /\ pixels' = pixels
        /\ img' = img
        /\ outfile' = outfile
        /\ stdout' = stdout

C7_SameThumbnail ==
    ReturnedOk =>
        Output = Encode(FlipV(TextureRead(FxaaPass(scene, config.width, config.height)),
                              config.width, config.height),
                        config.width, config.height)

\* C7: the three parts above together: the loop starts only in visible mode
\* after the write, its steps keep texture, pixels and output, and the
\* thumbnail does not depend on the visibility flag or on the events.
C7_PreviewHarmless ==
    /\ [](C7_LoopAfterWrite /\ C7_SameThumbnail)
    /\ [][C7_LoopKeepsImage]_vars

C7_Witness ==
    /\ ReturnedOk
    /\ config.visible
    /\ polls
    /\ screen = texture
    /\ \E i \in 1..Len(texture) : texture[i] # BackgroundPixel

\* C8: in visible mode a poll that is delivered a CloseRequested or Destroyed
\* event sets `closed`, the loop then exits and run returns Ok(()); a poll
\* that is delivered no such event leaves the loop running; in invisible mode
\* run returns without polling for events.
C8_PollSetsClosed ==
    pc = "poll" =>
        /\ pc' = "while"
        /\ closed' = (closed \/ \E i \in 1..Len(polled') : IsCloseEvent(polled'[i]))

C8_LoopExit ==
    pc = "while" =>
        IF closed THEN pc' = "done" /\ result'.kind = "Ok" ELSE pc' = "blit"

C8_InvisibleReturns ==
    (pc = "ifvisible" /\ ~config.visible) => (pc' = "done" /\ result'.kind = "Ok")

C8_OkAfterClose ==
    /\ (ReturnedOk /\ config.visible) =>
          (closed /\ \E i \in 1..Len(polled) : IsCloseEvent(polled[i]))
    /\ (Finished /\ ~config.visible) => ~polls

\* C8: the parts above together: a close event delivered to a poll ends the
\* loop with Ok(()), nothing else a poll delivers does, and invisible mode
\* never polls.
C8_CloseEndsLoop ==
    /\ []C8_OkAfterClose
    /\ [][C8_PollSetsClosed /\ C8_LoopExit /\ C8_InvisibleReturns]_vars

C8_Witness ==
    /\ ReturnedOk
    /\ config.visible
    /\ polled = <<"Destroyed">>

\* C9: once the image has been flipped, row r of the buffer handed to the
\* encoder is row height-1-r of the bytes read back from the texture, byte
\* for byte, and the buffer holds width*height*4 bytes.
C9_RowsFlipped ==
    InTrace("flipv") =>
        /\ pixels = TextureRead(texture)
        /\ Len(img) = config.width * config.height * 4
        /\ \A r \in 0..(config.height - 1) :
              \A j \in 1..(config.width * 4) :
                 img[r * config.width * 4 + j]
                    = pixels[(config.height - 1 - r) * config.width * 4 + j]

C9_Witness ==
    /\ InTrace("flipv")
    /\ config.height >= 2
    /\ config.width >= 2
    /\ img # pixels

\* C10: when the draw call is reached the scene target holds the background
\* colour, alpha included, in every pixel; for a mesh without triangles every
\* pixel of the captured width*height buffer is the background colour.
C10_EmptyMeshIsBackground ==
    /\ pc = "draw" => \A i \in 1..NPix : scene[i] = BackgroundPixel
    /\ (InTrace("flipv") /\ mesh.ntri = 0) =>
          /\ Len(img) = NPix * 4
          /\ \A p \in 0..(NPix - 1) :
                \A c \in 1..4 : img[4 * p + c] = BackgroundPixel[c]

C10_Witness ==
    /\ InTrace("flipv")
    /\ mesh.ntri = 0
    /\ NPix > 1
    /\ \A p \in 0..(NPix - 1) : img[4 * p + 4] = 0

====
